---- MODULE Spec2Model ----
(***************************************************************************)
(* The adaptive assessment engine of AscendQuiz (src/ascendquiz_db.py):    *)
(* the difficulty classifier, the pool grouped by tier, the selector, the  *)
(* navigator, the mastery scorer, and the quiz_state machine that          *)
(* render_quiz drives, one script run per action.                          *)
(*                                                                         *)
(* Python values: None is the empty tuple <<>> and a present value x is    *)
(* <<x>>; strings that the code strips, splits or upper-cases are tuples   *)
(* of one-character strings; list indices are 0-based as in the code.      *)
(* The question collection is the engine's input: it is drawn from the     *)
(* bounded set QuestionLists (the UI's size gate on generated sets is      *)
(* outside the engine).                                                    *)
(***************************************************************************)
EXTENDS Integers, Sequences, FiniteSets, TLC

VARIABLES
    all_questions,            \* st.session_state.all_questions
    questions_by_difficulty,  \* st.session_state.questions_by_difficulty
    current_difficulty,       \* quiz_state["current_difficulty"]
    asked,                    \* quiz_state["asked"]: set of (tier, index)
    answers,                  \* quiz_state["answers"]: list of (tier, correct, q)
    quiz_end,                 \* quiz_state["quiz_end"]
    current_q_idx,            \* quiz_state["current_q_idx"]
    current_q,                \* quiz_state["current_q"]
    show_explanation,         \* quiz_state["show_explanation"]
    last_correct,             \* quiz_state["last_correct"]
    call                      \* a direct call of an engine function and its result

vars == <<all_questions, questions_by_difficulty, current_difficulty, asked,
          answers, quiz_end, current_q_idx, current_q, show_explanation,
          last_correct, call>>

quiz_state == <<current_difficulty, asked, answers, quiz_end, current_q_idx,
                current_q, show_explanation, last_correct>>

(* ------------------------------ bounds -------------------------------- *)

\* questions in the collection a session is started with
MaxQuestions == 5
\* questions in the collection of a session checked for completion
MaxLiveQuestions == 4
\* questions in the collection group_by_difficulty is called with
MaxBuildQuestions == 3
\* answers in the list compute_mastery_score is called with
MaxAnswers == 4
\* answers recorded in a demo session
MaxDemoAnswers == 7
\* questions in a generated collection and answers recorded in a session of
\* the specification of the session starts
MaxStartQuestions == 3
MaxStartAnswers == 3
\* questions in the collection a direct function call is given
MaxCallQuestions == 3
\* how far outside 1..8 a directly supplied tier may lie
TierSlack == 2
\* how far outside 0..100 a directly supplied percentage may lie
PctSlack == 10

(* -------------------------- Python primitives ------------------------- *)

None == <<>>

Some(x) == <<x>>

\* the element of a one-element set: The({F(x) : x \in {arg}}) is F(arg) with
\* the argument evaluated once, before the call, as Python does
The(S) == CHOOSE r \in S : TRUE

\* range(a, b)
RangeUp(a, b) == IF b > a THEN [k \in 1..(b - a) |-> a + k - 1] ELSE <<>>

\* range(a, b, -1)
RangeDown(a, b) == IF a > b THEN [k \in 1..(a - b) |-> a - k + 1] ELSE <<>>

\* list(enumerate(pool))
Enumerate(pool) == [k \in 1..Len(pool) |-> <<k - 1, pool[k]>>]

\* d.get(key, default)
DictGet(d, key, default) == IF key \in DOMAIN d THEN d[key] ELSE default

RECURSIVE LStrip(_)
\* the leading blanks of str.strip()
LStrip(s) == IF s # <<>> /\ Head(s) = " " THEN LStrip(Tail(s)) ELSE s

RECURSIVE RStrip(_)
\* the trailing blanks of str.strip()
RStrip(s) ==
    IF s # <<>> /\ s[Len(s)] = " " THEN RStrip(SubSeq(s, 1, Len(s) - 1)) ELSE s

\* str.strip()
Strip(s) == RStrip(LStrip(s))

\* one character of str.upper()
UpperChar(c) ==
    CASE c = "a" -> "A"
      [] c = "b" -> "B"
      [] c = "c" -> "C"
      [] c = "d" -> "D"
      [] c = "x" -> "X"
      [] OTHER -> c

\* str.upper()
Upper(s) == [k \in 1..Len(s) |-> UpperChar(s[k])]

RECURSIVE SplitDot0(_)
\* s.split(".")[0]
SplitDot0(s) ==
    IF s = <<>> \/ Head(s) = "." THEN <<>> ELSE <<Head(s)>> \o SplitDot0(Tail(s))

\* int(x): x is [type, v]; a float carries its value in tenths and is
\* truncated toward zero; None and a non-numeric string raise
PyInt(x) ==
    CASE x.type = "int" -> Some(x.v)
      [] x.type = "float" ->
            Some(IF x.v >= 0 THEN x.v \div 10 ELSE -((-x.v) \div 10))
      [] OTHER -> None

\* round(n / d) for n >= 0, d > 0: Python rounds a tie to the even neighbour
PyRound(n, d) ==
    LET q == n \div d
        r == n % d
    IN  IF 2 * r < d THEN q
        ELSE IF 2 * r > d THEN q + 1
        ELSE IF q % 2 = 0 THEN q ELSE q + 1

(* --------------------------- program constants ------------------------ *)

\* the number of difficulty tiers: range(1, 9)
NumTiers == 8

\* quiz_state["current_difficulty"] of a new session
InitialDifficulty == 4

\* the score at which render_quiz ends the quiz
MasteryThreshold == 70

min_attempts_required == 3

Tiers == 1..NumTiers

\* (levels, weight) in dict order
mastery_bands ==
    << [levels |-> {1, 2}, weight |-> 25],
       [levels |-> {3, 4}, weight |-> 65],
       [levels |-> {5, 6}, weight |-> 85],
       [levels |-> {7, 8}, weight |-> 100] >>

option_labels == << <<"A">>, <<"B">>, <<"C">>, <<"D">> >>

(* ---------------------------- the classifier -------------------------- *)

\* mutant: the first boundary taken inclusive
assign_difficulty_label_inclusive(estimated_pct) ==
    LET pct == PyInt(estimated_pct)
    IN  IF pct = None THEN None
        ELSE IF pct[1] <= 30 THEN Some(8)
        ELSE IF pct[1] < 40 THEN Some(7)
        ELSE IF pct[1] < 50 THEN Some(6)
        ELSE IF pct[1] < 65 THEN Some(5)
        ELSE IF pct[1] < 75 THEN Some(4)
        ELSE IF pct[1] < 85 THEN Some(3)
        ELSE IF pct[1] < 90 THEN Some(2)
        ELSE Some(1)

assign_difficulty_label(estimated_pct) ==
    LET pct == PyInt(estimated_pct)
    IN  IF pct = None THEN None
        ELSE IF pct[1] < 30 THEN Some(8)
        ELSE IF pct[1] < 40 THEN Some(7)
        ELSE IF pct[1] < 50 THEN Some(6)
        ELSE IF pct[1] < 65 THEN Some(5)
        ELSE IF pct[1] < 75 THEN Some(4)
        ELSE IF pct[1] < 85 THEN Some(3)
        ELSE IF pct[1] < 90 THEN Some(2)
        ELSE Some(1)

(* ------------------------------- the pool ----------------------------- *)

\* q["difficulty_label"] = label
WithLabel(q, label) == ("difficulty_label" :> label) @@ q

RECURSIVE GroupLoop_prepend(_, _)
\* mutant: a question is put at the front of its tier's list
GroupLoop_prepend(questions, groups) ==
    IF questions = <<>> THEN groups
    ELSE LET q == Head(questions)
             pct == DictGet(q, "estimated_correct_pct", [type |-> "int", v |-> 0])
             label == assign_difficulty_label(pct)
         IN  IF label # None
             THEN GroupLoop_prepend(Tail(questions),
                      [groups EXCEPT ![label[1]] = <<WithLabel(q, label[1])>> \o @])
             ELSE GroupLoop_prepend(Tail(questions), groups)

RECURSIVE GroupLoop(_, _)
\* the for loop of group_by_difficulty over the questions not yet visited
GroupLoop(questions, groups) ==
    IF questions = <<>> THEN groups
    ELSE LET q == Head(questions)
             pct == DictGet(q, "estimated_correct_pct", [type |-> "int", v |-> 0])
             label == assign_difficulty_label(pct)
         IN  IF label # None
             THEN GroupLoop(Tail(questions),
                      [groups EXCEPT ![label[1]] = Append(@, WithLabel(q, label[1]))])
             ELSE GroupLoop(Tail(questions), groups)

group_by_difficulty(questions) == GroupLoop(questions, [i \in Tiers |-> <<>>])

\* mutant: the asked set is not consulted
pick_question_ignoring_asked(diff, asked_, all_qs) ==
    Enumerate(DictGet(all_qs, diff, <<>>))

\* mutant: the unasked entries are numbered anew from 0
pick_question_renumbered(diff, asked_, all_qs) ==
    LET pool == DictGet(all_qs, diff, <<>>)
        kept == SelectSeq(Enumerate(pool), LAMBDA e : <<diff, e[1]>> \notin asked_)
    IN  [k \in 1..Len(kept) |-> <<k - 1, kept[k][2]>>]

pick_question(diff, asked_, all_qs) ==
    LET pool == DictGet(all_qs, diff, <<>>)
    IN  SelectSeq(Enumerate(pool), LAMBDA e : <<diff, e[1]>> \notin asked_)

(* ----------------------------- the navigator -------------------------- *)

RECURSIVE FirstAvailable(_, _, _, _)
\* the for loop of find_next_difficulty: the first tier of search_range with
\* an unasked question, else the fallback
FirstAvailable(search_range, asked_, all_qs, fallback) ==
    IF search_range = <<>> THEN fallback
    ELSE IF pick_question(Head(search_range), asked_, all_qs) # <<>>
         THEN Head(search_range)
         ELSE FirstAvailable(Tail(search_range), asked_, all_qs, fallback)

\* mutant: the neighbouring tier is taken without looking for a question in it
find_next_difficulty_neighbour(current_diff, going_up, asked_, all_qs) ==
    LET next_diff == IF going_up THEN current_diff + 1 ELSE current_diff - 1
        search_range == IF going_up THEN RangeUp(next_diff + 1, NumTiers + 1)
                        ELSE RangeDown(next_diff - 1, 0)
    IN  IF 1 <= next_diff /\ next_diff <= NumTiers
        THEN next_diff
        ELSE FirstAvailable(search_range, asked_, all_qs, current_diff)

\* mutant: an unsuccessful search returns next_diff instead of current_diff
find_next_difficulty_next_diff(current_diff, going_up, asked_, all_qs) ==
    LET next_diff == IF going_up THEN current_diff + 1 ELSE current_diff - 1
        search_range == IF going_up THEN RangeUp(next_diff + 1, NumTiers + 1)
                        ELSE RangeDown(next_diff - 1, 0)
    IN  IF 1 <= next_diff /\ next_diff <= NumTiers
           /\ pick_question(next_diff, asked_, all_qs) # <<>>
        THEN next_diff
        ELSE FirstAvailable(search_range, asked_, all_qs, next_diff)

\* mutant: an unsuccessful search goes on in the opposite direction
find_next_difficulty_reverses(current_diff, going_up, asked_, all_qs) ==
    LET next_diff == IF going_up THEN current_diff + 1 ELSE current_diff - 1
        search_range == IF going_up THEN RangeUp(next_diff + 1, NumTiers + 1)
                        ELSE RangeDown(next_diff - 1, 0)
        opposite_range == IF going_up THEN RangeDown(current_diff - 1, 0)
                          ELSE RangeUp(current_diff + 1, NumTiers + 1)
    IN  IF 1 <= next_diff /\ next_diff <= NumTiers
           /\ pick_question(next_diff, asked_, all_qs) # <<>>
        THEN next_diff
        ELSE FirstAvailable(search_range, asked_, all_qs,
                 FirstAvailable(opposite_range, asked_, all_qs, current_diff))

find_next_difficulty(current_diff, going_up, asked_, all_qs) ==
    LET next_diff == IF going_up THEN current_diff + 1 ELSE current_diff - 1
        search_range == IF going_up THEN RangeUp(next_diff + 1, NumTiers + 1)
                        ELSE RangeDown(next_diff - 1, 0)
    IN  IF 1 <= next_diff /\ next_diff <= NumTiers
           /\ pick_question(next_diff, asked_, all_qs) # <<>>
        THEN next_diff
        ELSE FirstAvailable(search_range, asked_, all_qs, current_diff)

(* ------------------------------ the selector -------------------------- *)

\* mutant: random.choice over the whole tier instead of the unasked entries
get_next_question_any(current_diff, asked_, all_qs) ==
    LET available == pick_question(current_diff, asked_, all_qs)
        pool == Enumerate(DictGet(all_qs, current_diff, <<>>))
    IN  IF available = <<>> THEN {<<current_diff, None, None>>}
        ELSE {<<current_diff, Some(pool[k][1]), Some(pool[k][2])>> :
                 k \in 1..Len(pool)}

\* the results random.choice allows: (current_diff, idx, q)
get_next_question(current_diff, asked_, all_qs) ==
    LET available == pick_question(current_diff, asked_, all_qs)
    IN  IF available = <<>> THEN {<<current_diff, None, None>>}
        ELSE {<<current_diff, Some(available[k][1]), Some(available[k][2])>> :
                 k \in 1..Len(available)}

(* ------------------------------- the scorer --------------------------- *)

\* rationals <<n, d>>, d > 0, stand for the floats of compute_mastery_score
RatSub(x, y) == <<x[1] * y[2] - y[1] * x[2], x[2] * y[2]>>

RatMul(x, y) == <<x[1] * y[1], x[2] * y[2]>>

\* x / y for y > 0
RatDiv(x, y) == <<x[1] * y[2], x[2] * y[1]>>

RatLess(x, y) == x[1] * y[2] < y[1] * x[2]

RatMax(x, y) == IF RatLess(x, y) THEN y ELSE x

RECURSIVE SumTrue(_)
\* sum() of a list of booleans
SumTrue(bs) ==
    IF bs = <<>> THEN 0 ELSE (IF Head(bs) THEN 1 ELSE 0) + SumTrue(Tail(bs))

\* [item[1] for item in answers if item[0] in levels]
Relevant(answers_, levels) ==
    LET kept == SelectSeq(answers_, LAMBDA item : item[1] \in levels)
    IN  [k \in 1..Len(kept) |-> kept[k][2]]

\* mutant: no discount below min_attempts_required
BandScore_undiscounted(relevant, weight) ==
    LET attempts == Len(relevant)
        acc == <<SumTrue(relevant), attempts>>
        normalized_score == RatMax(RatDiv(RatSub(acc, <<1, 4>>), <<3, 4>>), <<0, 1>>)
    IN  RatMul(normalized_score, <<weight, 1>>)

\* mutant: the attempt-volume factor is applied to every band
BandScore_always_scaled(relevant, weight) ==
    LET attempts == Len(relevant)
        acc == <<SumTrue(relevant), attempts>>
        normalized_score == RatMax(RatDiv(RatSub(acc, <<1, 4>>), <<3, 4>>), <<0, 1>>)
    IN  RatMul(RatMul(normalized_score, <<weight, 1>>),
               <<attempts, min_attempts_required>>)

\* one band's score from its list of outcomes (attempts > 0)
BandScore(relevant, weight) ==
    LET attempts == Len(relevant)
        acc == <<SumTrue(relevant), attempts>>
        normalized_score == RatMax(RatDiv(RatSub(acc, <<1, 4>>), <<3, 4>>), <<0, 1>>)
    IN  IF attempts < min_attempts_required
        THEN RatMul(RatMul(normalized_score, <<weight, 1>>),
                    <<attempts, min_attempts_required>>)
        ELSE RatMul(normalized_score, <<weight, 1>>)

RECURSIVE BandScores(_, _)
\* band_scores after the loop over the bands from index b on
BandScores(answers_, b) ==
    IF b > Len(mastery_bands) THEN <<>>
    ELSE LET relevant == Relevant(answers_, mastery_bands[b].levels)
         IN  IF Len(relevant) = 0 THEN BandScores(answers_, b + 1)
             ELSE <<BandScore(relevant, mastery_bands[b].weight)>>
                      \o BandScores(answers_, b + 1)

\* mutant: the score of the last band with data instead of the largest
RatMaxOf_last(xs) == xs[Len(xs)]

\* max() of a non-empty list: the first of its largest elements
RatMaxOf(xs) ==
    xs[CHOOSE i \in 1..Len(xs) :
           /\ \A j \in 1..(i - 1) : RatLess(xs[j], xs[i])
           /\ \A j \in (i + 1)..Len(xs) : ~RatLess(xs[i], xs[j])]

\* int(round(x)) of a rational x >= 0
RoundRat(x) == PyRound(x[1], x[2])

\* the return value once band_scores is filled
ScoreOfBands(band_scores) ==
    IF band_scores = <<>> THEN 0
    ELSE The({ RoundRat(m) : m \in {RatMaxOf(band_scores)} })

compute_mastery_score(answers_) ==
    IF answers_ = <<>> THEN 0
    ELSE The({ ScoreOfBands(band_scores) :
                   band_scores \in {BandScores(answers_, 1)} })

(* ------------------------------ the inputs ---------------------------- *)

\* one estimated percentage per tier, 8 down to 1
TierPcts == {29, 39, 49, 64, 74, 84, 89, 100}

\* q["correct_answer"] as the question source may write it
CorrectAnswerForms == << <<"A">>, <<"b">>, <<" ", "C">>, <<"d", " ">> >>

\* the k-th question of a collection
Question(k, pct) ==
    [question |-> k,
     correct_answer |-> CorrectAnswerForms[(k % 4) + 1],
     estimated_correct_pct |-> [type |-> "int", v |-> pct]]

\* the collections of at most n questions, one per multiset of tiers
QuestionLists(n) ==
    { [k \in DOMAIN ps |-> Question(k, ps[k])] :
        ps \in { f \in UNION { [1..m -> TierPcts] : m \in 0..n } :
                   \A i \in DOMAIN f : \A j \in DOMAIN f : i < j => f[i] <= f[j] } }

\* an option as st.radio renders it: f"{label}. {text}"
RenderedOption(label) == label \o <<".", " ", "x">>

\* what st.radio may return: None or one of the four rendered options
Selections ==
    {None} \cup { Some(RenderedOption(option_labels[k])) : k \in 1..Len(option_labels) }

NoCall == [fn |-> "none"]

(* ------------------------------ the session --------------------------- *)

\* mutant: a new quiz_state keeps the asked set of the one it replaces
NewQuizState_keeps_asked ==
    /\ current_difficulty' = InitialDifficulty
    /\ asked' = asked
    /\ answers' = <<>>
    /\ quiz_end' = FALSE
    /\ current_q_idx' = None
    /\ current_q' = None
    /\ show_explanation' = FALSE
    /\ last_correct' = None

\* the quiz_state dict a session starts with
NewQuizState ==
    /\ current_difficulty' = InitialDifficulty
    /\ asked' = {}
    /\ answers' = <<>>
    /\ quiz_end' = FALSE
    /\ current_q_idx' = None
    /\ current_q' = None
    /\ show_explanation' = FALSE
    /\ last_correct' = None

\* a session started with one of the given question collections
StartWith(collections) ==
    /\ all_questions \in collections
    /\ questions_by_difficulty = group_by_difficulty(all_questions)
    /\ current_difficulty = InitialDifficulty
    /\ asked = {}
    /\ answers = <<>>
    /\ quiz_end = FALSE
    /\ current_q_idx = None
    /\ current_q = None
    /\ show_explanation = FALSE
    /\ last_correct = None
    /\ call = NoCall

Init == StartWith(QuestionLists(MaxQuestions))

LiveInit == StartWith(QuestionLists(MaxLiveQuestions))

\* mutant: the quiz_end check at the top of render_quiz is missing
QuizEnded_never == FALSE

\* render_quiz: "if state.get('quiz_end', False)"
QuizEnded == quiz_end

\* mutant: a higher threshold at the submit than the one of the final report
MasteryReached_high(new_score) == new_score >= 90

\* render_quiz: "if new_score >= 70"
MasteryReached(new_score) == new_score >= MasteryThreshold

\* mutant: mastery is granted from 65 on
MasteryAchieved_at65(score) == score >= 65

\* mastery = score >= 70 in render_quiz_complete
MasteryAchieved(score) == score >= MasteryThreshold

\* what render_quiz_complete computes from the recorded answers, shows and
\* (in pdf mode) writes to the quiz_sessions row
QuizCompleteOutputs(answers_) ==
    LET score == The({ compute_mastery_score(a) : a \in {answers_} })
        total == Len(answers_)
        correct_count == SumTrue([k \in 1..Len(answers_) |-> answers_[k][2]])
    IN  [fn |-> "render_quiz_complete",
         score |-> score,
         total |-> total,
         correct_count |-> correct_count,
         incorrect_count |-> total - correct_count,
         mastery |-> MasteryAchieved(score)]

\* a run of render_quiz with the quiz ended: render_quiz_complete, then return
RenderQuizComplete ==
    /\ QuizEnded
    /\ call' = QuizCompleteOutputs(answers)
    /\ UNCHANGED <<all_questions, questions_by_difficulty, quiz_state>>

\* mutant: an exhausted tier leaves the quiz open
GetNextQuestion_stays ==
    /\ ~QuizEnded
    /\ current_q = None
    /\ IF ~show_explanation
       THEN \E r \in get_next_question(current_difficulty, asked,
                                       questions_by_difficulty) :
                IF r[3] = None
                THEN UNCHANGED <<quiz_end, current_q, current_q_idx, current_difficulty>>
                ELSE /\ current_q' = r[3]
                     /\ current_q_idx' = r[2]
                     /\ current_difficulty' = r[1]
                     /\ UNCHANGED quiz_end
       ELSE /\ quiz_end' = TRUE
            /\ UNCHANGED <<current_q, current_q_idx, current_difficulty>>
    /\ UNCHANGED <<all_questions, questions_by_difficulty, asked, answers,
                   show_explanation, last_correct, call>>

\* mutant: an exhausted tier sends the session to the navigator
GetNextQuestion_searches ==
    /\ ~QuizEnded
    /\ current_q = None
    /\ IF ~show_explanation
       THEN \E r \in get_next_question(current_difficulty, asked,
                                       questions_by_difficulty) :
                IF r[3] = None
                THEN /\ current_difficulty' =
                            find_next_difficulty(current_difficulty, TRUE, asked,
                                                 questions_by_difficulty)
                     /\ quiz_end' = (current_difficulty' = current_difficulty)
                     /\ UNCHANGED <<current_q, current_q_idx>>
                ELSE /\ current_q' = r[3]
                     /\ current_q_idx' = r[2]
                     /\ current_difficulty' = r[1]
                     /\ UNCHANGED quiz_end
       ELSE /\ quiz_end' = TRUE
            /\ UNCHANGED <<current_q, current_q_idx, current_difficulty>>
    /\ UNCHANGED <<all_questions, questions_by_difficulty, asked, answers,
                   show_explanation, last_correct, call>>

\* a run of render_quiz with no question pending
GetNextQuestion ==
    /\ ~QuizEnded
    /\ current_q = None
    /\ IF ~show_explanation
       THEN \E r \in get_next_question(current_difficulty, asked,
                                       questions_by_difficulty) :
                IF r[3] = None
                THEN /\ quiz_end' = TRUE
                     /\ UNCHANGED <<current_q, current_q_idx, current_difficulty>>
                ELSE /\ current_q' = r[3]
                     /\ current_q_idx' = r[2]
                     /\ current_difficulty' = r[1]
                     /\ UNCHANGED quiz_end
       ELSE /\ quiz_end' = TRUE
            /\ UNCHANGED <<current_q, current_q_idx, current_difficulty>>
    /\ UNCHANGED <<all_questions, questions_by_difficulty, asked, answers,
                   show_explanation, last_correct, call>>

\* mutant: a submit records the answer but not the asked pair
SubmitAnswer_forgets_asked(selected) ==
    /\ ~QuizEnded
    /\ current_q # None
    /\ ~show_explanation
    /\ IF selected = None
       THEN UNCHANGED <<asked, answers, last_correct, show_explanation, quiz_end>>
       ELSE LET q == current_q[1]
                difficulty == current_difficulty
                selected_letter ==
                    The({ Upper(t) : t \in { Strip(u) : u \in {SplitDot0(selected[1])} } })
                correct_letter ==
                    The({ Upper(t) : t \in { Strip(u) : u \in {q.correct_answer} } })
                correct == (selected_letter = correct_letter)
                new_answers == Append(answers, <<difficulty, correct, q>>)
                new_score == The({ compute_mastery_score(a) : a \in {new_answers} })
            IN  /\ asked' = asked
                /\ answers' = new_answers
                /\ last_correct' = Some(correct)
                /\ show_explanation' = TRUE
                /\ quiz_end' = IF MasteryReached(new_score) THEN TRUE ELSE quiz_end
    /\ UNCHANGED <<all_questions, questions_by_difficulty, current_difficulty,
                   current_q, current_q_idx, call>>

\* mutant: a submit puts the new record in front of the earlier ones
SubmitAnswer_prepends(selected) ==
    /\ ~QuizEnded
    /\ current_q # None
    /\ ~show_explanation
    /\ IF selected = None
       THEN UNCHANGED <<asked, answers, last_correct, show_explanation, quiz_end>>
       ELSE LET q == current_q[1]
                difficulty == current_difficulty
                selected_letter ==
                    The({ Upper(t) : t \in { Strip(u) : u \in {SplitDot0(selected[1])} } })
                correct_letter ==
                    The({ Upper(t) : t \in { Strip(u) : u \in {q.correct_answer} } })
                correct == (selected_letter = correct_letter)
                new_answers == <<<<difficulty, correct, q>>>> \o answers
                new_score == The({ compute_mastery_score(a) : a \in {new_answers} })
            IN  /\ asked' = asked \cup {<<difficulty, current_q_idx[1]>>}
                /\ answers' = new_answers
                /\ last_correct' = Some(correct)
                /\ show_explanation' = TRUE
                /\ quiz_end' = IF MasteryReached(new_score) THEN TRUE ELSE quiz_end
    /\ UNCHANGED <<all_questions, questions_by_difficulty, current_difficulty,
                   current_q, current_q_idx, call>>

\* a run of render_quiz with "Submit Answer" clicked
SubmitAnswer(selected) ==
    /\ ~QuizEnded
    /\ current_q # None
    /\ ~show_explanation
    /\ IF selected = None
       THEN UNCHANGED <<asked, answers, last_correct, show_explanation, quiz_end>>
       ELSE LET q == current_q[1]
                difficulty == current_difficulty
                selected_letter ==
                    The({ Upper(t) : t \in { Strip(u) : u \in {SplitDot0(selected[1])} } })
                correct_letter ==
                    The({ Upper(t) : t \in { Strip(u) : u \in {q.correct_answer} } })
                correct == (selected_letter = correct_letter)
                new_answers == Append(answers, <<difficulty, correct, q>>)
                new_score == The({ compute_mastery_score(a) : a \in {new_answers} })
            IN  /\ asked' = asked \cup {<<difficulty, current_q_idx[1]>>}
                /\ answers' = new_answers
                /\ last_correct' = Some(correct)
                /\ show_explanation' = TRUE
                /\ quiz_end' = IF MasteryReached(new_score) THEN TRUE ELSE quiz_end
    /\ UNCHANGED <<all_questions, questions_by_difficulty, current_difficulty,
                   current_q, current_q_idx, call>>

\* mutant: "Next Question" keeps the answered question pending
NextQuestion_keeps_pending ==
    /\ ~QuizEnded
    /\ current_q # None
    /\ show_explanation
    /\ current_difficulty' =
           find_next_difficulty(current_difficulty, last_correct = Some(TRUE),
                                asked, questions_by_difficulty)
    /\ show_explanation' = FALSE
    /\ last_correct' = None
    /\ UNCHANGED <<all_questions, questions_by_difficulty, asked, answers,
                   quiz_end, call, current_q, current_q_idx>>

\* a run of render_quiz with "Next Question" clicked
NextQuestion ==
    /\ ~QuizEnded
    /\ current_q # None
    /\ show_explanation
    /\ current_difficulty' =
           find_next_difficulty(current_difficulty, last_correct = Some(TRUE),
                                asked, questions_by_difficulty)
    /\ current_q' = None
    /\ current_q_idx' = None
    /\ show_explanation' = FALSE
    /\ last_correct' = None
    /\ UNCHANGED <<all_questions, questions_by_difficulty, asked, answers,
                   quiz_end, call>>

\* render_quiz_complete with "Retry Same Questions" clicked
RetrySameQuestions ==
    /\ QuizEnded
    /\ NewQuizState
    /\ call' = NoCall
    /\ UNCHANGED <<all_questions, questions_by_difficulty>>

\* the steps of one session
SessionNext ==
    \/ GetNextQuestion
    \/ \E selected \in Selections : SubmitAnswer(selected)
    \/ NextQuestion
    \/ RenderQuizComplete

Next ==
    \/ SessionNext
    \/ RetrySameQuestions

Spec == Init /\ [][Next]_vars

\* the session with both buttons pressed whenever they are shown
LiveSpec ==
    /\ LiveInit
    /\ [][SessionNext]_vars
    /\ WF_vars(GetNextQuestion)
    /\ WF_vars(\E selected \in Selections \ {None} : SubmitAnswer(selected))
    /\ WF_vars(NextQuestion)

(* ------------------------------ the demo quiz ------------------------- *)

\* estimated_correct_pct of the entries of DEMO_QUESTIONS, in source order
DemoPcts == <<85, 90, 75, 70, 55, 60, 65, 45, 80, 70, 65, 55, 85, 80, 60>>

\* correct_answer of the entries of DEMO_QUESTIONS, in source order
DemoCorrectAnswers ==
    << <<"B">>, <<"C">>, <<"B">>, <<"C">>, <<"B">>, <<"B">>, <<"C">>, <<"B">>,
       <<"B">>, <<"B">>, <<"B">>, <<"C">>, <<"B">>, <<"B">>, <<"C">> >>

\* DEMO_QUESTIONS: the k-th entry stands for its text by its position
DEMO_QUESTIONS ==
    [k \in 1..Len(DemoPcts) |->
        [question |-> k,
         correct_answer |-> DemoCorrectAnswers[k],
         estimated_correct_pct |-> [type |-> "int", v |-> DemoPcts[k]]]]

\* orders random.shuffle may leave the copy of DEMO_QUESTIONS in: the source
\* order and an interleaving of its two halves
DemoOrders ==
    LET n == Len(DEMO_QUESTIONS)
    IN  { [k \in 1..n |-> k],
          [k \in 1..n |-> IF k % 2 = 1 THEN (k + 1) \div 2 ELSE n + 1 - (k \div 2)] }

\* questions = DEMO_QUESTIONS.copy(); random.shuffle(questions)
DemoCollections ==
    { [k \in DOMAIN order |-> DEMO_QUESTIONS[order[k]]] : order \in DemoOrders }

\* a session started with the demo button
DemoInit == StartWith(DemoCollections)

\* the demo button, reached from the completed quiz through the start page
\* ("Take Another Quiz" or "View Dashboard" clear the quiz state first)
StartDemo ==
    /\ QuizEnded
    /\ all_questions' \in DemoCollections
    /\ questions_by_difficulty' = group_by_difficulty(all_questions')
    /\ NewQuizState
    /\ call' = [fn |-> "start", mode |-> "demo"]

\* "Submit Answer" in a demo session of at most MaxDemoAnswers answers
DemoSubmitAnswer(selected) ==
    /\ Len(answers) < MaxDemoAnswers
    /\ SubmitAnswer(selected)

DemoNext ==
    \/ GetNextQuestion
    \/ \E selected \in Selections : DemoSubmitAnswer(selected)
    \/ NextQuestion
    \/ RenderQuizComplete
    \/ StartDemo

DemoSpec == DemoInit /\ [][DemoNext]_vars

(* --------------------------- starting a session ----------------------- *)

\* the collections a PDF quiz is generated with
StartCollections == QuestionLists(MaxStartQuestions)

\* a PDF upload, reached from the completed quiz through the start page
GeneratePdfQuiz ==
    /\ QuizEnded
    /\ all_questions' \in StartCollections
    /\ questions_by_difficulty' = group_by_difficulty(all_questions')
    /\ NewQuizState
    /\ call' = [fn |-> "start", mode |-> "pdf"]

\* "Generate New Questions" on the completed quiz, confirmed: the quiz state
\* is deleted and new questions are generated from the kept PDF
RegeneratePdfQuiz ==
    /\ QuizEnded
    /\ all_questions' \in StartCollections
    /\ questions_by_difficulty' = group_by_difficulty(all_questions')
    /\ NewQuizState
    /\ call' = [fn |-> "start", mode |-> "regenerate"]

\* "Submit Answer" in a session of at most MaxStartAnswers answers
StartSubmitAnswer(selected) ==
    /\ Len(answers) < MaxStartAnswers
    /\ SubmitAnswer(selected)

StartInit == StartWith(StartCollections \cup DemoCollections)

StartNext ==
    \/ GetNextQuestion
    \/ \E selected \in Selections : StartSubmitAnswer(selected)
    \/ NextQuestion
    \/ RenderQuizComplete
    \/ RetrySameQuestions
    \/ GeneratePdfQuiz
    \/ RegeneratePdfQuiz
    \/ StartDemo

StartSpec == StartInit /\ [][StartNext]_vars

(* ------------------------- direct function calls ---------------------- *)

\* the (tier, index) pairs of a pool
PoolPairs(all_qs) ==
    { <<t, i>> \in Tiers \X (0..MaxQuestions) : i < Len(all_qs[t]) }

\* a call that returned v (no engine function has a raise of its own)
Returned(v) == [raised |-> FALSE, value |-> v]

\* the tiers a caller may supply, in and out of range
TierInputs == (1 - TierSlack)..(NumTiers + TierSlack)

\* the session variables of a state in which only functions are called
NoSession ==
    /\ current_difficulty = InitialDifficulty
    /\ asked = {}
    /\ answers = <<>>
    /\ quiz_end = FALSE
    /\ current_q_idx = None
    /\ current_q = None
    /\ show_explanation = FALSE
    /\ last_correct = None

CallInit ==
    /\ all_questions \in QuestionLists(MaxCallQuestions)
    /\ questions_by_difficulty = group_by_difficulty(all_questions)
    /\ NoSession
    /\ \E d \in TierInputs, g \in BOOLEAN,
          a \in SUBSET PoolPairs(group_by_difficulty(all_questions)) :
           call = [fn |-> "idle", diff |-> d, going_up |-> g, asked |-> a,
                   ret |-> Returned(None)]

CallPickQuestion ==
    /\ call.fn = "idle"
    /\ call' = [call EXCEPT !.fn = "pick_question",
                  !.ret = Returned(pick_question(call.diff, call.asked,
                                                 questions_by_difficulty))]
    /\ UNCHANGED <<all_questions, questions_by_difficulty, quiz_state>>

CallGetNextQuestion ==
    /\ call.fn = "idle"
    /\ \E r \in get_next_question(call.diff, call.asked, questions_by_difficulty) :
           call' = [call EXCEPT !.fn = "get_next_question", !.ret = Returned(r)]
    /\ UNCHANGED <<all_questions, questions_by_difficulty, quiz_state>>

\* get_next_question called twice with the same arguments: the function has
\* no random-source parameter and each call draws from the module-level
\* generator of random, which nothing in the program seeds
CallGetNextQuestionTwice ==
    /\ call.fn = "idle"
    /\ \E r1 \in get_next_question(call.diff, call.asked, questions_by_difficulty) :
       \E r2 \in get_next_question(call.diff, call.asked, questions_by_difficulty) :
           call' = [call EXCEPT !.fn = "get_next_question_twice",
                                !.ret = Returned(<<r1, r2>>)]
    /\ UNCHANGED <<all_questions, questions_by_difficulty, quiz_state>>

CallFindNextDifficulty ==
    /\ call.fn = "idle"
    /\ call' = [call EXCEPT !.fn = "find_next_difficulty",
                  !.ret = Returned(find_next_difficulty(call.diff, call.going_up,
                                       call.asked, questions_by_difficulty))]
    /\ UNCHANGED <<all_questions, questions_by_difficulty, quiz_state>>

CallNext ==
    \/ CallPickQuestion
    \/ CallGetNextQuestion
    \/ CallGetNextQuestionTwice
    \/ CallFindNextDifficulty

CallSpec == CallInit /\ [][CallNext]_vars

\* the values a question's estimated_correct_pct may hold
PctInputs ==
    { [type |-> "int", v |-> n] : n \in (0 - PctSlack)..(100 + PctSlack) }
        \cup { [type |-> "float", v |-> n] : n \in (0 - 10 * PctSlack)..(1000 + 10 * PctSlack) }
        \cup { [type |-> "str", v |-> 0], [type |-> "NoneType", v |-> 0] }

ClassifyInit ==
    /\ all_questions = <<>>
    /\ questions_by_difficulty = group_by_difficulty(<<>>)
    /\ NoSession
    /\ \E x \in PctInputs :
           call = [fn |-> "idle", estimated_pct |-> x, ret |-> Returned(None)]

CallAssignDifficultyLabel ==
    /\ call.fn = "idle"
    /\ call' = [call EXCEPT !.fn = "assign_difficulty_label",
                  !.ret = Returned(assign_difficulty_label(call.estimated_pct))]
    /\ UNCHANGED <<all_questions, questions_by_difficulty, quiz_state>>

ClassifySpec == ClassifyInit /\ [][CallAssignDifficultyLabel]_vars

\* the estimated_correct_pct values of the questions given to the build: a
\* key that is absent is NoKey
NoKey == [type |-> "absent", v |-> 0]

BuildPcts ==
    { [type |-> "int", v |-> 20], [type |-> "int", v |-> 70],
      [type |-> "int", v |-> 95], [type |-> "float", v |-> 749],
      [type |-> "str", v |-> 0], [type |-> "NoneType", v |-> 0], NoKey }

\* the k-th question of a collection given to the build
BuildQuestion(k, x) ==
    IF x = NoKey
    THEN [question |-> k, correct_answer |-> CorrectAnswerForms[(k % 4) + 1]]
    ELSE [question |-> k, correct_answer |-> CorrectAnswerForms[(k % 4) + 1],
          estimated_correct_pct |-> x]

BuildInit ==
    /\ all_questions \in
           { [k \in DOMAIN xs |-> BuildQuestion(k, xs[k])] :
               xs \in UNION { [1..m -> BuildPcts] : m \in 0..MaxBuildQuestions } }
    /\ questions_by_difficulty = group_by_difficulty(<<>>)
    /\ NoSession
    /\ call = [fn |-> "idle", ret |-> Returned(None)]

\* questions_by_difficulty = group_by_difficulty(all_questions)
CallGroupByDifficulty ==
    /\ call.fn = "idle"
    /\ questions_by_difficulty' = group_by_difficulty(all_questions)
    /\ call' = [call EXCEPT !.fn = "group_by_difficulty",
                  !.ret = Returned(group_by_difficulty(all_questions))]
    /\ UNCHANGED <<all_questions, quiz_state>>

BuildSpec == BuildInit /\ [][CallGroupByDifficulty]_vars

\* the tiers of the answers given to the scorer: both tiers of the lowest and
\* of the highest band, one of each band between, and 0, which is in no band
ScoreTiers == {0, 1, 2, 4, 5, 7, 8}

ScoreInit ==
    /\ answers \in UNION { [1..m -> ScoreTiers \X BOOLEAN] : m \in 0..MaxAnswers }
    /\ all_questions = <<>>
    /\ questions_by_difficulty = group_by_difficulty(<<>>)
    /\ current_difficulty = InitialDifficulty
    /\ asked = {}
    /\ quiz_end = FALSE
    /\ current_q_idx = None
    /\ current_q = None
    /\ show_explanation = FALSE
    /\ last_correct = None
    /\ call = [fn |-> "idle", ret |-> Returned(0)]

\* score = compute_mastery_score(answers)
CallComputeMasteryScore ==
    /\ call.fn = "idle"
    /\ call' = [call EXCEPT !.fn = "compute_mastery_score",
                  !.ret = Returned(compute_mastery_score(answers))]
    /\ UNCHANGED <<all_questions, questions_by_difficulty, quiz_state>>

\* compute_mastery_score(answers) and, as the submit handler calls it after
\* answers.append(item), compute_mastery_score(answers + [item])
CallComputeMasteryScoreAppended ==
    /\ call.fn = "idle"
    /\ Len(answers) < MaxAnswers
    /\ \E item \in ScoreTiers \X BOOLEAN :
           call' = [fn |-> "compute_mastery_score_appended",
                    item |-> item,
                    ret |-> Returned(<<compute_mastery_score(answers),
                                       compute_mastery_score(Append(answers, item))>>)]
    /\ UNCHANGED <<all_questions, questions_by_difficulty, quiz_state>>

ScoreNext ==
    \/ CallComputeMasteryScore
    \/ CallComputeMasteryScoreAppended

ScoreSpec == ScoreInit /\ [][ScoreNext]_vars

(* ------------------------------ the claims ---------------------------- *)

\* the unasked (index, question) entries of a tier, read off the pool
Available(t, asked_, all_qs) ==
    IF t \in DOMAIN all_qs
    THEN { <<i, all_qs[t][i + 1]>> : i \in { j \in 0..(Len(all_qs[t]) - 1) :
                                               <<t, j>> \notin asked_ } }
    ELSE {}

\* the number of questions of the pool
PoolSize == Cardinality(PoolPairs(questions_by_difficulty))

\* the (tier, index) pair an answer record was submitted for
PairOf(item) ==
    <<item[1], CHOOSE i \in 0..MaxQuestions :
                   /\ i < Len(questions_by_difficulty[item[1]])
                   /\ questions_by_difficulty[item[1]][i + 1] = item[3]>>

Score == compute_mastery_score(answers)

\* the state in which render_quiz shows the explanation and "Next Question"
ShowingFeedback == ~quiz_end /\ show_explanation /\ current_q # None

\* the state in which render_quiz asks the selector for a question
Selecting == ~quiz_end /\ ~show_explanation /\ current_q = None

\* C1: the (tier, index) pairs of the recorded answers are pairwise distinct
\* in every reachable session state.
C1_NoPairSubmittedTwice ==
    \A i \in 1..Len(answers) : \A j \in 1..Len(answers) :
        i # j => PairOf(answers[i]) # PairOf(answers[j])

C1_Witness ==
    \E i \in 1..Len(answers) : \E j \in 1..Len(answers) :
        i # j /\ answers[i][1] = answers[j][1]

\* C2: get_next_question returns no question exactly when the tier has no
\* unasked entry, and otherwise an unasked (index, question) entry of the
\* tier, never a pair already asked.
C2_SelectorReturnsAvailable ==
    call.fn = "get_next_question" =>
        LET r == call.ret.value
            avail == Available(call.diff, call.asked, questions_by_difficulty)
        IN  /\ ~call.ret.raised
            /\ r[1] = call.diff
            /\ (r[3] = None) <=> (avail = {})
            /\ (r[3] = None) <=> (r[2] = None)
            /\ r[3] # None =>
                  /\ <<r[2][1], r[3][1]>> \in avail
                  /\ <<call.diff, r[2][1]>> \notin call.asked

C2_Witness ==
    /\ call.fn = "get_next_question"
    /\ call.ret.value[3] # None
    /\ \E pr \in call.asked : pr[1] = call.diff

\* a tier has an unasked question
HasAvailability(t) == Available(t, call.asked, questions_by_difficulty) # {}

\* the tiers strictly further than t in the requested direction
Further(t, going_up) ==
    IF going_up THEN { u \in Tiers : u > t } ELSE { u \in Tiers : u < t }

\* C3: for a tier in 1..8, find_next_difficulty returns a tier without an
\* unasked question only when no tier strictly further in the requested
\* direction has one, and then it returns the input tier.
C3_NavigatorAvailability ==
    (call.fn = "find_next_difficulty" /\ call.diff \in Tiers) =>
        LET r == call.ret.value
        IN  \/ HasAvailability(r)
            \/ /\ r = call.diff
               /\ \A u \in Further(call.diff, call.going_up) : ~HasAvailability(u)

C3_Witness ==
    /\ call.fn = "find_next_difficulty"
    /\ call.diff \in Tiers
    /\ call.ret.value = call.diff
    /\ ~HasAvailability(call.diff)
    /\ \E u \in Tiers : HasAvailability(u)

\* C4: with the user submitting and acknowledging, every session becomes
\* complete, and never after more submissions than the pool has questions.
C4_SessionCompletes ==
    /\ <>quiz_end
    /\ [](Len(answers) <= PoolSize)

C4_Witness ==
    /\ quiz_end
    /\ answers # <<>>
    /\ Score < MasteryThreshold
    /\ PoolSize < 3
    /\ \A t \in Tiers : t < InitialDifficulty => questions_by_difficulty[t] = <<>>

\* C5: a step taken while selecting, when the current tier has no unasked
\* question, ends the quiz and leaves answers, asked and the tier unchanged.
C5_ExhaustionCompletes ==
    [][ (Selecting /\ Available(current_difficulty, asked,
                                questions_by_difficulty) = {})
          => (quiz_end' /\ UNCHANGED <<answers, asked, current_difficulty>>) ]_vars

C5_Witness ==
    /\ quiz_end
    /\ current_q = None
    /\ answers # <<>>
    /\ Score > 0

\* C6: a submit whose new score is at least 70 ends the quiz in the same
\* step; from then on the feedback state is not entered and the tier is not
\* advanced for that answer.
C6_MasterySkipsFeedback ==
    [][ /\ (answers' # answers /\ compute_mastery_score(answers') >= MasteryThreshold)
            => (quiz_end' /\ ~ShowingFeedback')
        /\ (quiz_end /\ Score >= MasteryThreshold /\ answers' = answers)
            => (~ShowingFeedback' /\ current_difficulty' = current_difficulty
                /\ show_explanation' /\ current_q' = current_q) ]_vars

C6_Witness ==
    /\ quiz_end
    /\ Score >= MasteryThreshold
    /\ show_explanation
    /\ current_q # None

\* C7: once the quiz has ended, a step either changes nothing of the
\* session or replaces it with a new session's state.
C7_CompleteIsTerminal ==
    [][ quiz_end =>
          \/ UNCHANGED <<quiz_state, all_questions, questions_by_difficulty>>
          \/ (NewQuizState /\ UNCHANGED <<all_questions, questions_by_difficulty>>) ]_vars

C7_Witness ==
    /\ quiz_end
    /\ show_explanation
    /\ current_q # None
    /\ last_correct = Some(TRUE)

\* C8: the current tier and every tier recorded in answers or asked lie in
\* 1..8 in every reachable session state.
C8_TiersInRange ==
    /\ current_difficulty \in Tiers
    /\ \A i \in 1..Len(answers) : answers[i][1] \in Tiers
    /\ \A pr \in asked : pr[1] \in Tiers

C8_Witness ==
    /\ Selecting
    /\ current_difficulty = NumTiers
    /\ answers # <<>>
    /\ answers[Len(answers)][1] = NumTiers
    /\ answers[Len(answers)][2]

TableTier(pct) ==
    CASE pct < 30 -> 8
      [] pct >= 30 /\ pct < 40 -> 7
      [] pct >= 40 /\ pct < 50 -> 6
      [] pct >= 50 /\ pct < 65 -> 5
      [] pct >= 65 /\ pct < 75 -> 4
      [] pct >= 75 /\ pct < 85 -> 3
      [] pct >= 85 /\ pct < 90 -> 2
      [] pct >= 90 -> 1

\* the boundary points the table is tested at
BoundaryPoints ==
    { <<29, 8>>, <<30, 7>>, <<39, 7>>, <<40, 6>>, <<49, 6>>, <<50, 5>>,
      <<64, 5>>, <<65, 4>>, <<74, 4>>, <<75, 3>>, <<84, 3>>, <<85, 2>>,
      <<89, 2>>, <<90, 1>>, <<100, 1>> }

\* C10: assign_difficulty_label maps every integer percentage to the tier
\* of the boundary table, and the listed boundary points to the listed tiers.
C10_ClassifyTable ==
    (call.fn = "assign_difficulty_label" /\ call.estimated_pct.type = "int") =>
        /\ call.ret.value = Some(TableTier(call.estimated_pct.v))
        /\ \A bp \in BoundaryPoints :
               call.estimated_pct.v = bp[1] => call.ret.value = Some(bp[2])

C10_Witness ==
    /\ call.fn = "assign_difficulty_label"
    /\ call.estimated_pct = [type |-> "int", v |-> 65]
    /\ call.ret.value = Some(4)

\* the percentage a classified value stands for lies in 0..100
InDomain(x) ==
    CASE x.type = "int" -> 0 <= x.v /\ x.v <= 100
      [] x.type = "float" -> 0 <= x.v /\ x.v <= 1000
      [] OTHER -> FALSE

\* C11 as claimed: assign_difficulty_label yields no tier for every
\* non-numeric input and for every numeric input outside 0..100.
C11_InvalidOutsideDomain ==
    (call.fn = "assign_difficulty_label" /\ ~InDomain(call.estimated_pct)) =>
        call.ret.value = None

\* the tier the classifier gives the k-th question of the collection
LabelOf(k) ==
    assign_difficulty_label(
        DictGet(all_questions[k], "estimated_correct_pct", [type |-> "int", v |-> 0]))

\* the (tier, index) places at which the k-th question stands in a pool
PlacesOf(k, groups) ==
    { pr \in Tiers \X (0..Len(all_questions)) :
        /\ pr[2] < Len(groups[pr[1]])
        /\ groups[pr[1]][pr[2] + 1].question = k }

\* the questions before the k-th that the classifier puts in the same tier
EarlierSameTier(k) == { j \in 1..(k - 1) : LabelOf(j) = LabelOf(k) }

\* the collection without the questions the classifier rejects
AcceptedOnly == SelectSeq(all_questions, LAMBDA q :
    assign_difficulty_label(
        DictGet(q, "estimated_correct_pct", [type |-> "int", v |-> 0])) # None)

\* C12: group_by_difficulty does not fail; a question the classifier accepts
\* stands exactly once, in the classifier's tier, at the index that counts
\* the earlier accepted questions of that tier; a rejected question stands
\* nowhere, and the pool is the one built without the rejected questions.
C12_BuildPlacesEachOnce ==
    call.fn = "group_by_difficulty" =>
        LET groups == call.ret.value
        IN  /\ ~call.ret.raised
            /\ DOMAIN groups = Tiers
            /\ \A k \in 1..Len(all_questions) :
                   IF LabelOf(k) # None
                   THEN /\ PlacesOf(k, groups) =
                               { <<LabelOf(k)[1], Cardinality(EarlierSameTier(k))>> }
                        /\ groups[LabelOf(k)[1]][Cardinality(EarlierSameTier(k)) + 1]
                               = WithLabel(all_questions[k], LabelOf(k)[1])
                   ELSE PlacesOf(k, groups) = {}
            /\ \A t \in Tiers : \A i \in 1..Len(groups[t]) :
                   groups[t][i].question \in 1..Len(all_questions)
            /\ groups = group_by_difficulty(AcceptedOnly)

C12_Witness ==
    /\ call.fn = "group_by_difficulty"
    /\ \E k \in 1..Len(all_questions) : \E j \in 1..Len(all_questions) :
           /\ j < k /\ k < Len(all_questions)
           /\ LabelOf(k) = None
           /\ LabelOf(j) # None /\ LabelOf(j) = LabelOf(k + 1)
    /\ Len(call.ret.value[4]) = 2

\* the claimed bands and their weights
ClaimedBands == { <<{1, 2}, 25>>, <<{3, 4}, 65>>, <<{5, 6}, 85>>, <<{7, 8}, 100>> }

\* attempts and correct answers of a band in an answer list
AttemptsIn(as, levels) == Cardinality({ k \in DOMAIN as : as[k][1] \in levels })

CorrectIn(as, levels) ==
    Cardinality({ k \in DOMAIN as : as[k][1] \in levels /\ as[k][2] })

\* the claimed band score as a fraction <<numerator, denominator>>:
\* max((c/a - 1/4) / (3/4), 0) * w is max(4c - a, 0) * w / (3a), and times
\* a/3 below three attempts it is max(4c - a, 0) * w / 9
ClaimedBandScore(as, band) ==
    LET a == AttemptsIn(as, band[1])
        c == CorrectIn(as, band[1])
        top == IF 4 * c > a THEN (4 * c - a) * band[2] ELSE 0
    IN  IF a < 3 THEN <<top, 9>> ELSE <<top, 3 * a>>

\* r is the fraction x rounded to the nearest integer, halves to the even one
IsRounded(r, x) ==
    LET twice == 2 * (r * x[2] - x[1])
    IN  /\ -x[2] <= twice /\ twice <= x[2]
        /\ (twice = x[2] \/ twice = -x[2]) => r % 2 = 0

\* the claimed score r of an answer list
IsClaimedScore(r, as) ==
    LET with_data == { band \in ClaimedBands : AttemptsIn(as, band[1]) > 0 }
    IN  IF with_data = {} THEN r = 0
        ELSE \E best \in with_data :
                 /\ \A band \in with_data :
                        LET x == ClaimedBandScore(as, band)
                            y == ClaimedBandScore(as, best)
                        IN  x[1] * y[2] <= y[1] * x[2]
                 /\ IsRounded(r, ClaimedBandScore(as, best))

\* C13: compute_mastery_score returns the rounded largest band score over the
\* bands with attempts, 0 when no band has data, and a value in 0..100.
C13_ScoreIsRoundedMaxBand ==
    call.fn = "compute_mastery_score" =>
        /\ ~call.ret.raised
        /\ call.ret.value \in 0..100
        /\ IsClaimedScore(call.ret.value, answers)
        /\ answers = <<>> => call.ret.value = 0

C13_Witness ==
    /\ call.fn = "compute_mastery_score"
    /\ AttemptsIn(answers, {1, 2}) = 3 /\ CorrectIn(answers, {1, 2}) = 3
    /\ AttemptsIn(answers, {7, 8}) = 1 /\ CorrectIn(answers, {7, 8}) = 1
    /\ call.ret.value = 33

\* C14: at least three answers, all correct and all in tier 7 or 8, score 100.
C14_AllCorrectTopBand ==
    (/\ call.fn = "compute_mastery_score"
     /\ Len(answers) >= 3
     /\ \A k \in DOMAIN answers : answers[k][1] \in {7, 8} /\ answers[k][2]) =>
        call.ret.value = 100

C14_Witness ==
    /\ call.fn = "compute_mastery_score"
    /\ Len(answers) = 4
    /\ \A k \in DOMAIN answers : answers[k][1] \in {7, 8} /\ answers[k][2]
    /\ \E k \in DOMAIN answers : answers[k][1] = 7
    /\ \E k \in DOMAIN answers : answers[k][1] = 8
    /\ call.ret.value = 100

\* C15: two answers, both correct and both in tier 1 or 2, score 17: the band
\* is discounted by attempts / 3 below three attempts.
C15_TwoOfTwoLowBand ==
    (/\ call.fn = "compute_mastery_score"
     /\ Len(answers) = 2
     /\ \A k \in DOMAIN answers : answers[k][1] \in {1, 2} /\ answers[k][2]) =>
        call.ret.value = 17

C15_Witness ==
    /\ call.fn = "compute_mastery_score"
    /\ answers = << <<1, TRUE>>, <<2, TRUE>> >>
    /\ call.ret.value = 17

\* C16 as claimed: selection is determined by what the selector is given
\* (pool, tier, asked set and whatever random source is injected): two calls
\* of get_next_question with the same arguments select the same entry.
C16_SelectionReproducible ==
    call.fn = "get_next_question_twice" =>
        call.ret.value[1] = call.ret.value[2]

\* C17: what the completion screen reports is determined by the recorded
\* answers: the score is the claimed score of the answers, the total is
\* their number, and mastery is reported exactly from a score of 70 on.
C17_FinalOutputs ==
    call.fn = "render_quiz_complete" =>
        /\ quiz_end
        /\ IsClaimedScore(call.score, answers)
        /\ call.total = Len(answers)
        /\ call.mastery <=> call.score >= 70

C17_Witness ==
    /\ call.fn = "render_quiz_complete"
    /\ call.total = 3
    /\ call.score = 65
    /\ ~call.mastery

\* the tiers strictly further than t in the requested direction that have an
\* unasked question
FurtherWithAvailability(t, going_up) ==
    { u \in Further(t, going_up) : HasAvailability(u) }

\* C18: find_next_difficulty returns the tier with an unasked question that is
\* nearest to the input tier strictly in the requested direction, and the
\* input tier when there is none; the result is never on the other side.
C18_NearestInDirection ==
    call.fn = "find_next_difficulty" =>
        LET r == call.ret.value
            cands == FurtherWithAvailability(call.diff, call.going_up)
        IN  /\ IF cands = {} THEN r = call.diff
               ELSE /\ r \in cands
                    /\ \A u \in cands :
                           IF call.going_up THEN r <= u ELSE r >= u
            /\ IF call.going_up THEN r >= call.diff ELSE r <= call.diff

C18_Witness ==
    /\ call.fn = "find_next_difficulty"
    /\ call.diff \in Tiers
    /\ ~call.going_up
    /\ call.ret.value < call.diff - 1
    /\ \E u \in Tiers : u < call.ret.value /\ HasAvailability(u)
    /\ \E u \in Tiers : u > call.diff /\ HasAvailability(u)

\* some tier strictly beyond current_difficulty, harder or easier as going_up
\* says, still has an unasked question
RemainsBeyond(going_up) ==
    \E u \in Further(current_difficulty, going_up) :
        Available(u, asked, questions_by_difficulty) # {}

\* feedback is shown for an answer after which nothing is unasked at the
\* current tier or in the direction the answer sends the search, while
\* unasked questions remain on the other side
OnlyOppositeRemains ==
    /\ ShowingFeedback
    /\ Available(current_difficulty, asked, questions_by_difficulty) = {}
    /\ ~RemainsBeyond(last_correct = Some(TRUE))
    /\ RemainsBeyond(last_correct # Some(TRUE))

\* the session is complete below the mastery threshold while unasked
\* questions remain on the side of the current tier away from the direction
\* of the last search
Stranded ==
    /\ quiz_end
    /\ current_q = None
    /\ answers # <<>>
    /\ Score < MasteryThreshold
    /\ RemainsBeyond(~answers[Len(answers)][2])

\* C19: the session can be stranded: a session whose last answer leaves
\* unasked questions only on the side away from the search direction goes on
\* to complete below the threshold with those questions still unasked.
C19_SessionStranded == OnlyOppositeRemains ~> Stranded

C19_Witness ==
    /\ Stranded
    /\ call.fn = "render_quiz_complete"
    /\ ~call.mastery
    /\ call.total < PoolSize

\* the session is complete because the selector found nothing, after at least
\* one answer
CompleteByExhaustion ==
    /\ quiz_end
    /\ current_q = None
    /\ answers # <<>>

\* C20: in a session complete by exhaustion after at least one answer, no
\* unasked question remains at the current tier nor in any tier strictly
\* further in the direction of the last answer.
C20_ExhaustedInDirection ==
    CompleteByExhaustion =>
        /\ Available(current_difficulty, asked, questions_by_difficulty) = {}
        /\ ~RemainsBeyond(answers[Len(answers)][2])

C20_Witness ==
    /\ CompleteByExhaustion
    /\ Len(answers) >= 2
    /\ ~answers[Len(answers)][2]
    /\ RemainsBeyond(TRUE)
    /\ \E u \in Tiers : u < current_difficulty /\ questions_by_difficulty[u] # <<>>

\* the (tier, index) pairs of the recorded answers
PairsOfAnswers == { PairOf(answers[k]) : k \in 1..Len(answers) }

\* the records a submit of the pending question can append: the current tier,
\* whether the selected letter is the correct letter, and the question
SubmitRecords ==
    { <<current_difficulty,
        Upper(Strip(SplitDot0(selected[1]))) = Upper(Strip(current_q[1].correct_answer)),
        current_q[1]>> : selected \in Selections \ {None} }

\* a step that records an answer appends one record of the pending question
\* and adds exactly its pair to asked
RecordsOneAnswer ==
    (answers' # answers /\ answers' # <<>>) =>
        /\ current_q # None /\ current_q_idx # None
        /\ \E rec \in SubmitRecords : answers' = Append(answers, rec)
        /\ <<current_difficulty, current_q_idx[1]>> \notin asked
        /\ asked' = asked \cup {<<current_difficulty, current_q_idx[1]>>}
        /\ current_q[1] =
               questions_by_difficulty[current_difficulty][current_q_idx[1] + 1]

\* C21: a submit appends one record and adds the pending pair to asked in the
\* same step, and in every reachable state asked is exactly the set of pairs
\* of the recorded answers and has as many elements as there are answers.
C21_AskedMatchesAnswers ==
    /\ [](asked = PairsOfAnswers /\ Cardinality(asked) = Len(answers))
    /\ [][RecordsOneAnswer]_vars

C21_Witness ==
    /\ Len(answers) = 3
    /\ Cardinality(asked) = 3
    /\ answers[1][2] /\ ~answers[2][2]
    /\ answers[1][1] # answers[2][1]
    /\ show_explanation

\* the tier the claimed advance gives from the current state: the nearest
\* tier with an unasked question strictly in the direction of the last
\* answer, or the current tier when there is none
ClaimedAdvance ==
    LET going_up == (last_correct = Some(TRUE))
        cands == { u \in Further(current_difficulty, going_up) :
                     Available(u, asked, questions_by_difficulty) # {} }
    IN  IF cands = {} THEN current_difficulty
        ELSE CHOOSE r \in cands :
                 \A u \in cands : IF going_up THEN r <= u ELSE r >= u

\* C22: a step taken while feedback is shown sets the current tier to the
\* advance of the current tier in the direction of the last answer, clears
\* the pending question and the feedback flag so that the session is
\* selecting again, and leaves asked and answers unchanged.
C22_AcknowledgeEffect ==
    [][ ShowingFeedback =>
          /\ current_difficulty' = ClaimedAdvance
          /\ current_q' = None /\ current_q_idx' = None
          /\ ~show_explanation'
          /\ Selecting'
          /\ UNCHANGED <<asked, answers>> ]_vars

C22_Witness ==
    /\ Selecting
    /\ Len(answers) = 2
    /\ answers[2][2]
    /\ current_difficulty > answers[2][1] + 1
    /\ last_correct = None

\* xs is a prefix of ys
IsPrefix(xs, ys) ==
    /\ Len(xs) <= Len(ys)
    /\ \A k \in 1..Len(xs) : xs[k] = ys[k]

\* C23: across every step of a session the earlier answers are a prefix of
\* the later ones and the earlier asked set is a subset of the later one; the
\* one step that is not a step of the same session is the retry taken from
\* the completed quiz, which starts a new session state.
C23_AnswersAppendOnly ==
    [][ \/ IsPrefix(answers, answers') /\ asked \subseteq asked'
        \/ quiz_end /\ NewQuizState ]_vars

C23_Witness ==
    /\ Len(answers) = 4
    /\ answers[1][2] /\ ~answers[2][2] /\ answers[3][2] /\ ~answers[4][2]
    /\ Cardinality({ answers[k][1] : k \in 1..4 }) >= 2

\* the state the claim gives a new session
FreshSession ==
    /\ current_difficulty = 4
    /\ asked = {}
    /\ answers = <<>>
    /\ current_q = None /\ current_q_idx = None
    /\ ~show_explanation
    /\ ~quiz_end
    /\ last_correct = None

\* C24: a session starts in the fresh state, whichever way it is started: the
\* first session does, and every step that leaves the completed quiz or
\* replaces the question collection (retry, PDF generation, regeneration,
\* demo) leads to the fresh state, with nothing of asked or answers kept.
C24_StartIsFresh ==
    /\ FreshSession
    /\ [][ ((quiz_end /\ ~quiz_end') \/ all_questions' # all_questions)
             => FreshSession' ]_vars

C24_Witness ==
    /\ FreshSession
    /\ call = [fn |-> "start", mode |-> "regenerate"]
    /\ Len(all_questions) = 3

\* C25: pick_question returns exactly the (index, question) entries of the
\* tier whose (tier, index) pair is not asked, each once, in ascending index
\* order, with the index the question has in the tier's list of the pool.
C25_AvailableEntries ==
    call.fn = "pick_question" =>
        LET r == call.ret.value
        IN  /\ ~call.ret.raised
            /\ { r[k] : k \in 1..Len(r) } =
                   Available(call.diff, call.asked, questions_by_difficulty)
            /\ \A j \in 1..Len(r) : \A k \in 1..Len(r) :
                   j < k => r[j][1] < r[k][1]
            /\ \A k \in 1..Len(r) :
                   /\ <<call.diff, r[k][1]>> \notin call.asked
                   /\ r[k][2] = questions_by_difficulty[call.diff][r[k][1] + 1]

C25_Witness ==
    /\ call.fn = "pick_question"
    /\ <<call.diff, 0>> \in call.asked
    /\ Len(call.ret.value) = 2
    /\ call.ret.value[1][1] = 1
    /\ call.ret.value[2][1] = 2

\* the number of questions the claim gives each tier of the demo pool
ClaimedDemoTierSizes == <<1, 2, 3, 4, 4, 1, 0, 0>>

\* C26: in a demo session the tiers 1..6 hold 1, 2, 3, 4, 4, 1 questions and
\* tiers 7 and 8 none, the score stays below 70 in every reachable state, the
\* completed quiz never reports mastery, and a completed session with every
\* answer correct has three answers, at tiers 4, 5 and 6, and score 57.
C26_DemoNeverMasters ==
    /\ \A t \in Tiers : Len(questions_by_difficulty[t]) = ClaimedDemoTierSizes[t]
    /\ Score < 70
    /\ call.fn = "render_quiz_complete" => ~call.mastery
    /\ (quiz_end /\ \A k \in 1..Len(answers) : answers[k][2]) =>
           /\ Len(answers) = 3
           /\ answers[1][1] = 4 /\ answers[2][1] = 5 /\ answers[3][1] = 6
           /\ Score = 57

C26_Witness ==
    /\ call.fn = "render_quiz_complete"
    /\ call.score = 57
    /\ call.total = 3
    /\ call.correct_count = 3
    /\ ~call.mastery

\* C27: a session whose pool has no question in tier 4 completes on its first
\* selection, with no answer recorded, score 0 and the tier still 4, whatever
\* the other tiers hold.
C27_EmptyStartTierCompletes ==
    [][ (/\ Selecting
         /\ answers = <<>>
         /\ questions_by_difficulty[InitialDifficulty] = <<>>)
          => /\ quiz_end'
             /\ answers' = <<>> /\ asked' = {}
             /\ current_q' = None
             /\ current_difficulty' = InitialDifficulty
             /\ Score' = 0 ]_vars

C27_Witness ==
    /\ quiz_end
    /\ answers = <<>>
    /\ questions_by_difficulty[4] = <<>>
    /\ questions_by_difficulty[3] # <<>>
    /\ questions_by_difficulty[5] # <<>>
    /\ call.fn = "render_quiz_complete"
    /\ call.score = 0 /\ call.total = 0

\* C28: the score is below 70 in every state in which the quiz has not ended;
\* a quiz ended by exhaustion (no question pending) never reports mastery,
\* and a completed quiz that reports mastery was ended by a submit: the
\* answered question is still pending with its feedback flag set.
C28_MasteryOnlyBySubmit ==
    /\ ~quiz_end => Score < 70
    /\ (quiz_end /\ current_q = None) => Score < 70
    /\ call.fn = "render_quiz_complete" =>
           /\ (current_q = None => ~call.mastery)
           /\ (call.mastery => current_q # None /\ show_explanation
                                 /\ answers # <<>>)

C28_Witness ==
    /\ call.fn = "render_quiz_complete"
    /\ call.mastery
    /\ current_q # None
    /\ Len(answers) = 4

\* C29: a score of at least 70 needs at least three attempts in the band
\* {5, 6} or in the band {7, 8}; the bands {1, 2} and {3, 4} alone never give
\* it, and neither does an answer list of fewer than three answers.
C29_MasteryNeedsThreeHardAttempts ==
    (call.fn = "compute_mastery_score" /\ call.ret.value >= 70) =>
        /\ \/ AttemptsIn(answers, {5, 6}) >= 3
           \/ AttemptsIn(answers, {7, 8}) >= 3
        /\ Len(answers) >= 3

C29_Witness ==
    /\ call.fn = "compute_mastery_score"
    /\ call.ret.value >= 70
    /\ call.ret.value < 100
    /\ AttemptsIn(answers, {5, 6}) = 3
    /\ AttemptsIn(answers, {7, 8}) = 1

\* C30: for every answer list and every tier, the score with an incorrect
\* answer appended is not above the score of the list, and the score with a
\* correct answer appended is not below it.
C30_ScoreMonotone ==
    call.fn = "compute_mastery_score_appended" =>
        LET before == call.ret.value[1]
            after == call.ret.value[2]
        IN  IF call.item[2] THEN after >= before ELSE after <= before

C30_Witness ==
    /\ call.fn = "compute_mastery_score_appended"
    /\ ~call.item[2]
    /\ call.ret.value[2] < call.ret.value[1]
    /\ call.ret.value[1] >= 70
    /\ call.ret.value[2] < 70

====
